---- MODULE Spec2Model ----
(***************************************************************************)
(* Payment verification and ledger recording of the ai-backend service:    *)
(* recordPayPalPayment (payment controller), verifyPayPalPayment (PayPal   *)
(* service), the Payment collection with its unique index and the User     *)
(* balance.                                                                *)
(*                                                                         *)
(* Money is held in thousandths of a pound (1 pound = 1000), so that the   *)
(* controller's amount / 1000 maps a claimed amount a to the integer a,    *)
(* a capture value "5.01" is 5010, the tolerance 0.01 is 10 and the legacy *)
(* threshold 1000 is 1000000.                                              *)
(***************************************************************************)
EXTENDS Integers, Sequences, FiniteSets, TLC

\* ------------------------------------------------------------------ bounds
NumProcs == 2

Procs == 1..NumProcs

\* ------------------------------------------------------- program constants
Pound == 1000
LegacyThreshold == 1000 * Pound
Tolerance == 10

NoId == ""

Abs(x) == IF x < 0 THEN -x ELSE x

\* ------------------------------------------------------- provider snapshots
NoCapture == [id |-> NoId, status |-> "NONE", value |-> 0, currency |-> ""]

NoOrder == [id |-> NoId, status |-> "NONE", captures |-> << >>]

Capture(id, st, v, cur) == [id |-> id, status |-> st, value |-> v, currency |-> cur]

Order(id, st, caps) == [id |-> id, status |-> st, captures |-> caps]

VARIABLES
    balance,        \* stored User.balance of the account
    payments,       \* the Payment collection
    provider,       \* what PayPal holds: captures and orders by id
    paypalSkipVerification, paypalUseSandbox,   \* env flags
    pc,             \* per request: the await point it is suspended at
    req,            \* per request: req.user and req.body
    userBal,        \* per request: user.balance of the loaded document
    vres,           \* per request: verificationResult
    verif,          \* per request: how verification ended
    resp,           \* per request: the HTTP response sent
    credits,        \* history: the balance credits performed
    balance0,       \* history: the stored balance at the start
    look,           \* history, per request: how each provider lookup ended
    call,           \* one verifyPayPalOrder / verifyPayPalCapture invocation
    accessTokenCache,   \* the module's cached token and its expiresAt
    credentials,    \* env.paypalClientId and env.paypalClientSecret are set
    now,            \* Date.now(), in seconds
    tok,            \* per caller: its getAccessToken invocation
    rejected,       \* history: the tokens PayPal answered 401 for
    issued          \* history: the tokens PayPal issued, with their times

\* The state of the token client.
tokenVars == <<accessTokenCache, credentials, now, tok, rejected, issued>>

vars == <<balance, payments, provider, paypalSkipVerification, paypalUseSandbox,
          pc, req, userBal, vres, verif, resp, credits, balance0, look, call, tokenVars>>

\* ----------------------------------------------------------------- requests
\* req.user / req.body of one POST: auth is "req.user is set", finite is
\* Number.isFinite(Number(amount)), orderId NoId is a missing (or non-string)
\* orderId, captureId NoId is an absent captureId.
Request(auth, uid, finite, amt, cur, oid, cid) ==
    [auth |-> auth, userId |-> uid, finite |-> finite, amount |-> amt,
     currency |-> cur, orderId |-> oid, captureId |-> cid]

NoRequest == Request(FALSE, NoId, FALSE, 0, "", NoId, NoId)

AccountId == "U1"

\* The submissions the ledger specification draws from.
Requests ==
    { Request(TRUE, AccountId, TRUE, 5000, "GBP", "O1", "C1"),
      Request(TRUE, AccountId, TRUE, 5000, "GBP", "O2", "C1"),
      Request(TRUE, AccountId, TRUE, 7000, "GBP", "O3", NoId),
      Request(TRUE, AccountId, TRUE, 5000, "GBP", "O2", NoId),
      Request(TRUE, AccountId, TRUE, 5000, "USD", "O1", "C1"),
      Request(TRUE, AccountId, TRUE, 0, "GBP", "O1", "C1"),
      Request(TRUE, AccountId, FALSE, 0, "GBP", "O1", "C1"),
      Request(TRUE, AccountId, TRUE, 5000, "GBP", NoId, "C1"),
      Request(FALSE, AccountId, TRUE, 5000, "GBP", "O1", "C1"),
      Request(TRUE, "U9", TRUE, 5000, "GBP", "O1", "C1") }

\* What PayPal holds in the ledger specification: order O1 with capture C1
\* (5.00 GBP), order O3 with capture C3 (7.00 GBP); O2 is no order of PayPal.
\* Its lookups answer or end not-found; the failures of other kinds are
\* met one submission at a time in the verification specification.
CaptureIds == {"C1", "C3"}

OrderIds == {"O1", "O2", "O3"}

LedgerProvider ==
    [captures |-> [c \in CaptureIds |->
                     IF c = "C1" THEN Capture("C1", "COMPLETED", 5000, "GBP")
                     ELSE Capture("C3", "COMPLETED", 7000, "GBP")],
     orders |-> [o \in OrderIds |->
                     IF o = "O1" THEN Order("O1", "COMPLETED",
                                            <<Capture("C1", "COMPLETED", 5000, "GBP")>>)
                     ELSE IF o = "O3" THEN Order("O3", "COMPLETED",
                                            <<Capture("C3", "COMPLETED", 7000, "GBP")>>)
                     ELSE NoOrder],
     failures |-> {}]

\* PAYPAL_SKIP_VERIFICATION and PAYPAL_USE_SANDBOX.  Sandbox without the skip
\* flag runs every step as production does, so it is left out.
EnvSettings == {<<FALSE, FALSE>>, <<TRUE, FALSE>>, <<TRUE, TRUE>>}

\* Starting balances: empty, just under the legacy threshold, and a legacy
\* balance of 40050 (meant as 40.05 pounds).
StartBalances == {0, 998 * Pound, 40050 * Pound}

\* ------------------------------------------------------------ HTTP responses
Response(status, kind, bal) == [status |-> status, kind |-> kind, balance |-> bal]

NoResponse == Response(0, "none", 0)

NoResult == [verified |-> FALSE, captureDetails |-> NoCapture, orderDetails |-> NoOrder]

\* No lookup has answered yet.
NoLookups == [capture |-> "none", order |-> "none"]

\* No token is cached.
NoToken == [token |-> 0, expiresAt |-> 0]

\* No getAccessToken invocation is in progress.
NoTokenCall == [state |-> "idle", retryCount |-> 0, token |-> 0, via |-> "none"]

\* The token client after the module is loaded, with credentials configured.
TokenClientIdle ==
    /\ accessTokenCache = NoToken
    /\ credentials = TRUE
    /\ now = 0
    /\ tok = [p \in Procs |-> NoTokenCall]
    /\ rejected = {}
    /\ issued = {}

\* No lookup invocation is in progress.
NoCall == [api |-> "none", id |-> NoId, retryCount |-> 0, requests |-> 0,
           seen |-> << >>, result |-> "none"]

\* ------------------------------------------------------------------ verifier
\* Math.abs(capturedAmount - expectedAmount) > 0.01 on IEEE-754 doubles.  The
\* operands carry at most three decimals, so the rounding of the subtraction
\* can change the comparison only when the exact difference is 0.01; there the
\* double result lies just above or just below the double 0.01.  RoundedAbove
\* lists the (captured, expected) pairs of the model's amounts for which it
\* lies above: 1.01 - 1 = 0.010000000000000009 and |0.99 - 1| =
\* 0.010000000000000009, while 5.01 - 5 = |4.99 - 5| = 0.009999999999999787.
RoundedAbove == { <<1010, 1000>>, <<990, 1000>> }

\* Faulty variant: amounts are never compared.
AmountMismatch_Never(captured, expected) == FALSE

AmountMismatch(captured, expected) ==
    IF Abs(captured - expected) = Tolerance
    THEN <<captured, expected>> \in RoundedAbove
    ELSE Abs(captured - expected) > Tolerance

\* Faulty variant: the currency comparison is dropped.
CurrencyMismatch_Dropped(capturedCurrency, expectedCurrency) == FALSE

CurrencyMismatch(capturedCurrency, expectedCurrency) ==
    capturedCurrency # expectedCurrency

\* Faulty variant: a capture is accepted on its status alone.
CaptureAccepted_StatusOnly(cap, expectedAmount, expectedCurrency) ==
    cap.status = "COMPLETED"

\* The status, currency and amount checks both strategies apply to a capture.
CaptureAccepted(cap, expectedAmount, expectedCurrency) ==
    /\ cap.status = "COMPLETED"
    /\ ~CurrencyMismatch(cap.currency, expectedCurrency)
    /\ ~AmountMismatch(cap.value, expectedAmount)

\* Faulty variant: the last capture of the purchase unit is taken.
FirstCapture_Last(order) ==
    IF Len(order.captures) = 0 THEN NoCapture ELSE order.captures[Len(order.captures)]

\* captures of purchase_units[0], or none.
FirstCapture(order) ==
    IF Len(order.captures) = 0 THEN NoCapture ELSE order.captures[1]

\* Strategy 2 on a fetched order.
OrderResult(order, expectedAmount, expectedCurrency) ==
    IF order.status # "COMPLETED" \/ Len(order.captures) = 0
    THEN [verified |-> FALSE, captureDetails |-> NoCapture, orderDetails |-> order]
    ELSE [verified |-> CaptureAccepted(FirstCapture(order), expectedAmount, expectedCurrency),
          captureDetails |-> FirstCapture(order), orderDetails |-> order]

\* --------------------------------------------------------- provider answers
\* How a lookup ends once its retries are over: the resource, or a failure.
\* "404": HTTP 404; "503": HTTP 503 on every attempt; "SERVICE_UNAVAILABLE":
\* a body naming SERVICE_UNAVAILABLE on every attempt; "401": HTTP 401;
\* "network": fetch rejects on every attempt.  prov.failures are the failures
\* PayPal shows beside not-found.
FailureModes == {"503", "SERVICE_UNAVAILABLE", "401", "network"}

Answer(ok, mode, cap, ord) == [ok |-> ok, mode |-> mode, capture |-> cap, order |-> ord]

LookupCapture(prov, id) ==
    IF id \in DOMAIN prov.captures THEN prov.captures[id] ELSE NoCapture

LookupOrder(prov, id) ==
    IF id \in DOMAIN prov.orders THEN prov.orders[id] ELSE NoOrder

CaptureAnswers(prov, id) ==
    (IF LookupCapture(prov, id) = NoCapture
     THEN {Answer(FALSE, "404", NoCapture, NoOrder)}
     ELSE {Answer(TRUE, "ok", LookupCapture(prov, id), NoOrder)})
    \cup {Answer(FALSE, m, NoCapture, NoOrder) : m \in prov.failures}

OrderAnswers(prov, id) ==
    (IF LookupOrder(prov, id) = NoOrder
     THEN {Answer(FALSE, "404", NoCapture, NoOrder)}
     ELSE {Answer(TRUE, "ok", NoCapture, LookupOrder(prov, id))})
    \cup {Answer(FALSE, m, NoCapture, NoOrder) : m \in prov.failures}

\* An Error message, as the set of the substrings the callers test it for.
OrderErrorMessage(mode) ==
    CASE mode = "404" -> {"404"}
      [] mode = "401" -> {"401"}
      [] mode = "SERVICE_UNAVAILABLE" -> {"service is currently unavailable", "unavailable"}
      [] mode = "network" -> {"fetch"}
      [] OTHER -> {}

\* Which of the substrings that error messages are tested for an id holds:
\* the model's ids hold none but "network-7" and the order id "O401".
IdWords(id) ==
    CASE id = "network-7" -> {"network"}
      [] id = "O401" -> {"401"}
      [] OTHER -> {}

\* The catch of strategy 2: a not-found becomes the environment-mismatch
\* message, worded by whether a captureId was supplied; it quotes the
\* orderId and the captureId.
VerifyErrorMessage(msg, orderId, captureId) ==
    IF "404" \in msg \/ "RESOURCE_NOT_FOUND" \in msg
    THEN (IF captureId # NoId THEN {"Both capture"} \cup IdWords(captureId) ELSE {})
         \cup IdWords(orderId)
    ELSE msg

\* The controller's catch of a verification error.
ErrorResponse(msg) ==
    IF "401" \in msg \/ "NOT_AUTHORIZED" \in msg \/ "insufficient permissions" \in msg
    THEN Response(502, "PermissionsError", 0)
    ELSE IF "SERVICE_UNAVAILABLE" \in msg \/ "service is currently unavailable" \in msg
    THEN Response(503, "ServiceUnavailable", 0)
    ELSE IF "Order not found" \in msg \/ "Both capture" \in msg
    THEN Response(502, "EnvironmentMismatch", 0)
    ELSE IF "authentication" \in msg
    THEN Response(502, "AuthenticationFailed", 0)
    ELSE IF "unavailable" \in msg
    THEN Response(502, "Unavailable", 0)
    ELSE Response(502, "VerifyError", 0)

\* Faulty variant: "not verified" is answered like a provider error.
VerificationFailedResponse_AsError == Response(502, "VerifyError", 0)

VerificationFailedResponse == Response(402, "VerificationFailed", 0)

\* -------------------------------------------------------------------- ledger
\* user.balance > 1000: the balance is taken to be in the old format.
IsLegacy(b) == b > LegacyThreshold

\* user.balance / 1000
Normalized(b) == IF IsLegacy(b) THEN b \div 1000 ELSE b

\* const amountInPounds = parsedAmount / 1000
AmountInPounds(parsedAmount) == (parsedAmount * Pound) \div 1000

\* Faulty variant: either flag bypasses verification.
SkipVerification_Either == paypalSkipVerification \/ paypalUseSandbox

\* Faulty variant: the skip flag alone bypasses verification.
SkipVerification_FlagOnly == paypalSkipVerification

\* env.paypalSkipVerification && env.paypalUseSandbox
SkipVerification == paypalSkipVerification /\ paypalUseSandbox

\* Faulty variant: status is left to the schema default.
PaymentRecord_DefaultStatus(p, r, res) ==
    [user |-> r.userId, provider |-> "paypal", amount |-> r.amount,
     currency |-> r.currency, status |-> "pending", externalId |-> r.orderId,
     captureId |-> IF res.captureDetails.id # NoId THEN res.captureDetails.id
                   ELSE r.captureId,
     verified |-> ~paypalSkipVerification,
     verificationSkipped |-> (paypalSkipVerification /\ paypalUseSandbox),
     sandbox |-> paypalUseSandbox,
     by |-> p]

\* Faulty variant: the supplied captureId is stored when there is one.
PaymentRecord_SuppliedFirst(p, r, res) ==
    [user |-> r.userId, provider |-> "paypal", amount |-> r.amount,
     currency |-> r.currency, status |-> "completed", externalId |-> r.orderId,
     captureId |-> IF r.captureId # NoId THEN r.captureId
                   ELSE res.captureDetails.id,
     verified |-> ~paypalSkipVerification,
     verificationSkipped |-> (paypalSkipVerification /\ paypalUseSandbox),
     sandbox |-> paypalUseSandbox,
     by |-> p]

\* The document PaymentModel.create inserts; by is the inserting request.
PaymentRecord(p, r, res) ==
    [user |-> r.userId, provider |-> "paypal", amount |-> r.amount,
     currency |-> r.currency, status |-> "completed", externalId |-> r.orderId,
     captureId |-> IF res.captureDetails.id # NoId THEN res.captureDetails.id
                   ELSE r.captureId,
     verified |-> ~paypalSkipVerification,
     verificationSkipped |-> (paypalSkipVerification /\ paypalUseSandbox),
     sandbox |-> paypalUseSandbox,
     by |-> p]

\* Faulty variant: the pre-check finds nothing.
FindPayment_Nothing(orderId) == {}

\* PaymentModel.findOne({ externalId: orderId })
FindPayment(orderId) == {d \in payments : d.externalId = orderId}

\* Faulty variant: the collection has no unique index.
DuplicateKey_NoIndex(doc) == FALSE

\* Faulty variant: the index also covers the inserting request, so it never matches
\* the insert of another request.
DuplicateKey_PerRequest(doc) ==
    \E d \in payments :
        d.provider = doc.provider /\ d.externalId = doc.externalId /\ d.by = doc.by

\* The unique index { provider: 1, externalId: 1 }: an insert of doc is
\* rejected (E11000) when a stored document has the same pair.
DuplicateKey(doc) ==
    \E d \in payments : d.provider = doc.provider /\ d.externalId = doc.externalId

\* ------------------------------------------------------------------- actions
\* The response is sent and the handler returns: its user document is gone.
Finish(p, r) ==
    /\ resp' = [resp EXCEPT ![p] = r]
    /\ pc' = [pc EXCEPT ![p] = "done"]
    /\ userBal' = [userBal EXCEPT ![p] = 0]

\* Faulty variant: any number passes as an amount.
ValidAmount_AnyNumber(r) == r.finite

\* Number.isFinite(parsedAmount) && parsedAmount > 0
ValidAmount(r) == r.finite /\ r.amount > 0

\* A POST /payments/paypal arrives: the checks made before the first await.
Submit(p, r) ==
    /\ pc[p] = "idle"
    /\ req' = [req EXCEPT ![p] = r]
    /\ IF ~r.auth
       THEN Finish(p, Response(401, "Unauthorized", 0))
       ELSE IF ~ValidAmount(r)
       THEN Finish(p, Response(400, "InvalidAmount", 0))
       ELSE IF r.orderId = NoId
       THEN Finish(p, Response(400, "InvalidOrderId", 0))
       ELSE /\ pc' = [pc EXCEPT ![p] = "findUser"]
            /\ UNCHANGED <<resp, userBal>>
    /\ UNCHANGED <<balance, payments, provider, paypalSkipVerification,
                   paypalUseSandbox, vres, verif, credits, balance0, look, call, tokenVars>>

\* UserModel.findById answers; a legacy balance is divided in the loaded
\* document, whose save is the next await.
FindUser(p) ==
    /\ pc[p] = "findUser"
    /\ IF req[p].userId # AccountId
       THEN Finish(p, Response(404, "UserNotFound", 0))
       ELSE /\ userBal' = [userBal EXCEPT ![p] = Normalized(balance)]
            /\ pc' = [pc EXCEPT ![p] =
                        IF IsLegacy(balance) THEN "normSave" ELSE "findPayment"]
            /\ UNCHANGED resp
    /\ UNCHANGED <<balance, payments, provider, paypalSkipVerification,
                   paypalUseSandbox, req, vres, verif, credits, balance0, look, call, tokenVars>>

\* Faulty variant: the save divides the balance the store holds at that time.
NormSave_DivideStored(p) ==
    /\ pc[p] = "normSave"
    /\ balance' = balance \div 1000
    /\ pc' = [pc EXCEPT ![p] = "findPayment"]
    /\ UNCHANGED <<payments, provider, paypalSkipVerification, paypalUseSandbox,
                   req, userBal, vres, verif, resp, credits, balance0, look, call, tokenVars>>

\* user.save() of the converted balance.
NormSave(p) ==
    /\ pc[p] = "normSave"
    /\ balance' = userBal[p]
    /\ pc' = [pc EXCEPT ![p] = "findPayment"]
    /\ UNCHANGED <<payments, provider, paypalSkipVerification, paypalUseSandbox,
                   req, userBal, vres, verif, resp, credits, balance0, look, call, tokenVars>>

\* PaymentModel.findOne answers: the pre-check, then the choice between
\* skipping verification and starting it (capture first when a captureId came).
CheckExisting(p) ==
    /\ pc[p] = "findPayment"
    /\ IF FindPayment(req[p].orderId) # {}
       THEN /\ Finish(p, Response(409, "DuplicateAttempt", userBal[p]))
            /\ UNCHANGED <<vres, verif>>
       ELSE IF SkipVerification
       THEN /\ vres' = [vres EXCEPT ![p] = [NoResult EXCEPT !.verified = TRUE]]
            /\ verif' = [verif EXCEPT ![p] = "skipped"]
            /\ pc' = [pc EXCEPT ![p] = "create"]
            /\ UNCHANGED <<resp, userBal>>
       ELSE /\ pc' = [pc EXCEPT ![p] =
                        IF req[p].captureId # NoId THEN "fetchCapture" ELSE "fetchOrder"]
            /\ UNCHANGED <<vres, verif, resp, userBal>>
    /\ UNCHANGED <<balance, payments, provider, paypalSkipVerification,
                   paypalUseSandbox, req, credits, balance0, look, call, tokenVars>>

\* Strategy 1: verifyPayPalCapture answers.  A capture that is not accepted
\* ends the request with 402; a failed lookup falls through to strategy 2.
FetchCapture(p) ==
    /\ pc[p] = "fetchCapture"
    /\ \E a \in CaptureAnswers(provider, req[p].captureId) :
         /\ look' = [look EXCEPT ![p].capture = a.mode]
         /\ IF a.ok
            THEN IF CaptureAccepted(a.capture, AmountInPounds(req[p].amount), req[p].currency)
                 THEN /\ vres' = [vres EXCEPT ![p] =
                                    [NoResult EXCEPT !.verified = TRUE, !.captureDetails = a.capture]]
                      /\ pc' = [pc EXCEPT ![p] = "fetchOrderInfo"]
                      /\ UNCHANGED <<verif, resp, userBal>>
                 ELSE /\ vres' = [vres EXCEPT ![p] =
                                    [NoResult EXCEPT !.captureDetails = a.capture]]
                      /\ verif' = [verif EXCEPT ![p] = "unverified"]
                      /\ Finish(p, VerificationFailedResponse)
            ELSE /\ pc' = [pc EXCEPT ![p] = "fetchOrder"]
                 /\ UNCHANGED <<vres, verif, resp, userBal>>
    /\ UNCHANGED <<balance, payments, provider, paypalSkipVerification,
                   paypalUseSandbox, req, credits, balance0, call, tokenVars>>

\* Faulty variant: a failed order lookup takes the verification back.
InfoResult_OrderDecides(res, a) ==
    [res EXCEPT !.orderDetails = IF a.ok THEN a.order ELSE NoOrder,
                !.verified = a.ok]

\* Strategy 1 after an accepted capture: the order is fetched for the log,
\* its failure is caught and ignored, and verified stays true.
InfoResult(res, a) ==
    [res EXCEPT !.orderDetails = IF a.ok THEN a.order ELSE NoOrder]

\* The order lookup after an accepted capture answers.
FetchOrderInfo(p) ==
    /\ pc[p] = "fetchOrderInfo"
    /\ \E a \in OrderAnswers(provider, req[p].orderId) :
         /\ look' = [look EXCEPT ![p].order = a.mode]
         /\ vres' = [vres EXCEPT ![p] = InfoResult(vres[p], a)]
    /\ verif' = [verif EXCEPT ![p] = "verified"]
    /\ pc' = [pc EXCEPT ![p] = "create"]
    /\ UNCHANGED <<balance, payments, provider, paypalSkipVerification,
                   paypalUseSandbox, req, userBal, resp, credits, balance0, call, tokenVars>>

\* Strategy 2: verifyPayPalOrder answers.
FetchOrder(p) ==
    /\ pc[p] = "fetchOrder"
    /\ \E a \in OrderAnswers(provider, req[p].orderId) :
         /\ look' = [look EXCEPT ![p].order = a.mode]
         /\ IF a.ok
            THEN LET res == OrderResult(a.order, AmountInPounds(req[p].amount), req[p].currency)
                 IN /\ vres' = [vres EXCEPT ![p] = res]
                    /\ IF res.verified
                       THEN /\ verif' = [verif EXCEPT ![p] = "verified"]
                            /\ pc' = [pc EXCEPT ![p] = "create"]
                            /\ UNCHANGED <<resp, userBal>>
                       ELSE /\ verif' = [verif EXCEPT ![p] = "unverified"]
                            /\ Finish(p, VerificationFailedResponse)
            ELSE /\ verif' = [verif EXCEPT ![p] = "error"]
                 /\ Finish(p, ErrorResponse(
                        VerifyErrorMessage(OrderErrorMessage(a.mode), req[p].orderId,
                                           req[p].captureId)))
                 /\ UNCHANGED vres
    /\ UNCHANGED <<balance, payments, provider, paypalSkipVerification,
                   paypalUseSandbox, req, credits, balance0, call, tokenVars>>

\* PaymentModel.create: inserted, or rejected by the unique index (11000).
Create(p) ==
    /\ pc[p] = "create"
    /\ LET doc == PaymentRecord(p, req[p], vres[p])
       IN IF DuplicateKey(doc)
          THEN /\ pc' = [pc EXCEPT ![p] = "reread"]
               /\ UNCHANGED payments
          ELSE /\ payments' = payments \cup {doc}
               /\ pc' = [pc EXCEPT ![p] = "creditSave"]
    /\ UNCHANGED <<balance, provider, paypalSkipVerification, paypalUseSandbox,
                   req, userBal, vres, verif, resp, credits, balance0, look, call, tokenVars>>

\* Faulty variant: the duplicate branch credits the balance as well.
Reread_Credits(p) ==
    /\ pc[p] = "reread"
    /\ balance' = balance + AmountInPounds(req[p].amount)
    /\ Finish(p, Response(200, "AlreadyProcessed", balance + AmountInPounds(req[p].amount)))
    /\ UNCHANGED <<payments, provider, paypalSkipVerification,
                   paypalUseSandbox, req, vres, verif, credits, balance0, look, call, tokenVars>>

\* The duplicate branch: UserModel.findById again, answer with its balance.
Reread(p) ==
    /\ pc[p] = "reread"
    /\ Finish(p, Response(200, "AlreadyProcessed", balance))
    /\ UNCHANGED <<balance, payments, provider, paypalSkipVerification,
                   paypalUseSandbox, req, vres, verif, credits, balance0, look, call, tokenVars>>

\* user.balance += amountInPounds; await user.save()
CreditSave(p) ==
    /\ pc[p] = "creditSave"
    /\ LET newBalance == userBal[p] + AmountInPounds(req[p].amount)
       IN /\ balance' = newBalance
          /\ credits' = credits \cup
                {[by |-> p, orderId |-> req[p].orderId,
                  amount |-> AmountInPounds(req[p].amount),
                  captureId |-> vres[p].captureDetails.id]}
          /\ Finish(p, Response(200, "Recorded", newBalance))
    /\ UNCHANGED <<payments, provider, paypalSkipVerification, paypalUseSandbox,
                   req, vres, verif, balance0, look, call, tokenVars>>

\* A store operation throws something other than a duplicate key: next(error).
StoreOps == {"findUser", "normSave", "findPayment", "create", "reread", "creditSave"}

\* Faulty variant: the failure takes the request's own record back.
StoreFail_Rollback(p) ==
    /\ pc[p] \in StoreOps
    /\ Finish(p, Response(500, "StoreError", 0))
    /\ payments' = {d \in payments : d.by # p}
    /\ UNCHANGED <<balance, provider, paypalSkipVerification,
                   paypalUseSandbox, req, vres, verif, credits, balance0, look, call, tokenVars>>

StoreFail(p) ==
    /\ pc[p] \in StoreOps
    /\ Finish(p, Response(500, "StoreError", 0))
    /\ UNCHANGED <<balance, payments, provider, paypalSkipVerification,
                   paypalUseSandbox, req, vres, verif, credits, balance0, look, call, tokenVars>>

\* ------------------------------------------------------------ specifications
Init ==
    /\ balance \in StartBalances
    /\ balance0 = balance
    /\ payments = {}
    /\ provider = LedgerProvider
    /\ \E e \in EnvSettings :
          /\ paypalSkipVerification = e[1]
          /\ paypalUseSandbox = e[2]
    /\ pc = [p \in Procs |-> "idle"]
    /\ req = [p \in Procs |-> NoRequest]
    /\ userBal = [p \in Procs |-> 0]
    /\ vres = [p \in Procs |-> NoResult]
    /\ verif = [p \in Procs |-> "none"]
    /\ resp = [p \in Procs |-> NoResponse]
    /\ credits = {}
    /\ look = [p \in Procs |-> NoLookups]
    /\ call = NoCall
    /\ TokenClientIdle

Next ==
    \E p \in Procs :
        \/ \E r \in Requests : Submit(p, r)
        \/ FindUser(p)
        \/ NormSave(p)
        \/ CheckExisting(p)
        \/ FetchCapture(p)
        \/ FetchOrderInfo(p)
        \/ FetchOrder(p)
        \/ Create(p)
        \/ Reread(p)
        \/ CreditSave(p)
        \/ StoreFail(p)

Spec == Init /\ [][Next]_vars

\* One submission against every provider state of a bounded family: the
\* verifier's inputs (claimed amount and currency, capture and order as PayPal
\* reports them) range over the sets below; the store is empty and healthy.
Currencies == {"GBP", "USD"}

ClaimedAmounts == {1000, 5000}

CapturedValues == {990, 1000, 1010, 1020, 4990, 5000, 5010}

Snapshots(id) ==
    {Capture(id, "COMPLETED", v, c) : v \in CapturedValues, c \in Currencies}
    \cup {Capture(id, "PENDING", v, "GBP") : v \in ClaimedAmounts}

VerifyOrders ==
    {NoOrder, Order("O1", "COMPLETED", << >>)}
    \cup {Order("O1", "APPROVED", <<Capture("C1", "COMPLETED", v, "GBP")>>) : v \in ClaimedAmounts}
    \cup {Order("O1", "COMPLETED", <<s>>) : s \in Snapshots("C1")}
    \cup {Order("O1", "COMPLETED", <<s, Capture("C2", "COMPLETED", 5000, "GBP")>>) :
            s \in Snapshots("C1")}

VerifyProviders ==
    {[captures |-> [c \in {"C1"} |-> cap], orders |-> [o \in {"O1"} |-> ord],
      failures |-> FailureModes] :
        cap \in Snapshots("C1") \cup {NoCapture}, ord \in VerifyOrders}

VerifyRequests ==
    {Request(TRUE, AccountId, TRUE, a, c, "O1", cid) :
        a \in ClaimedAmounts, c \in Currencies, cid \in {NoId, "C1", "C9"}}
    \cup {r \in Requests : ~r.auth \/ ~r.finite \/ r.amount <= 0
                           \/ r.orderId = NoId \/ r.userId # AccountId}
    \cup {Request(TRUE, AccountId, TRUE, -5000, "GBP", "O1", "C1")}
    \cup {Request(TRUE, AccountId, TRUE, 5000, "GBP", "O401", cid) : cid \in {NoId, "C9"}}

InitVerify ==
    /\ balance = 0
    /\ balance0 = 0
    /\ payments = {}
    /\ provider \in VerifyProviders
    /\ paypalSkipVerification = FALSE
    /\ paypalUseSandbox = FALSE
    /\ pc = [p \in Procs |-> IF p = 1 THEN "idle" ELSE "done"]
    /\ req = [p \in Procs |-> NoRequest]
    /\ userBal = [p \in Procs |-> 0]
    /\ vres = [p \in Procs |-> NoResult]
    /\ verif = [p \in Procs |-> "none"]
    /\ resp = [p \in Procs |-> NoResponse]
    /\ credits = {}
    /\ look = [p \in Procs |-> NoLookups]
    /\ call = NoCall
    /\ TokenClientIdle

NextVerify ==
    \E p \in Procs :
        \/ \E r \in VerifyRequests : Submit(p, r)
        \/ FindUser(p)
        \/ CheckExisting(p)
        \/ FetchCapture(p)
        \/ FetchOrderInfo(p)
        \/ FetchOrder(p)
        \/ Create(p)
        \/ CreditSave(p)

VerifySpec == InitVerify /\ [][NextVerify]_vars

\* ------------------------------------------------------- one provider lookup
\* verifyPayPalOrder / verifyPayPalCapture as the chain of their recursive
\* invocations: call.retryCount is the parameter of the innermost one,
\* call.requests counts the fetches issued, call.seen lists what PayPal
\* answered, call.result is "fetching" while a request is in flight,
\* "sleeping" during the delay before a retry, and the outcome at the end.
MaxRetries == 3

\* What one fetch can bring: a 2xx ("ok"), a non-2xx status with an ordinary
\* body, a non-2xx whose body is named SERVICE_UNAVAILABLE, or a rejected
\* fetch ("network": the TypeError "fetch failed").
HttpAnswers == {"ok", "404", "401", "500", "503", "SERVICE_UNAVAILABLE", "network"}

Apis == {"order", "capture"}

\* The orderId or captureId a lookup is called with: an id as PayPal issues
\* them, and a string that holds the word "network".
LookupIds == {"5O190127TN364715T", "network-7"}

\* The message of the Error thrown in the !response.ok branch, as the set
\* of the substrings it is tested for.  Only the not-found message of
\* verifyPayPalCapture quotes the id.
ThrownMessage(api, id, answer) ==
    CASE answer = "SERVICE_UNAVAILABLE" -> {"service is currently unavailable"}
      [] answer = "404" /\ api = "capture" -> {"404"} \cup IdWords(id)
      [] answer = "network" -> {"fetch"}
      [] OTHER -> {answer}

\* The retry test of the catch, which also sees the errors thrown in the try.
CatchRetries(msg, retryCount) ==
    retryCount < MaxRetries /\ ("fetch" \in msg \/ "network" \in msg)

\* Faulty variant: one retry more than maxRetries.
ShouldRetry_OneMore(answer, retryCount) ==
    /\ answer \in {"503", "SERVICE_UNAVAILABLE", "network"}
    /\ retryCount <= MaxRetries

\* The two retry tests: service unavailable (status 503 or the body's name)
\* in the !response.ok branch, a message holding "fetch" in the catch.
ShouldRetry(answer, retryCount) ==
    \/ answer \in {"503", "SERVICE_UNAVAILABLE"} /\ retryCount < MaxRetries
    \/ answer = "network" /\ retryCount < MaxRetries

\* The payment state, which a lookup leaves alone.
ledgerVars == <<balance, payments, provider, paypalSkipVerification, paypalUseSandbox,
                pc, req, userBal, vres, verif, resp, credits, balance0, look>>

\* The lookup is invoked with retryCount = 0 and sends its first request.
Invoke(api, id) ==
    /\ call.result = "none"
    /\ call' = [api |-> api, id |-> id, retryCount |-> 0, requests |-> 1,
                seen |-> << >>, result |-> "fetching"]
    /\ UNCHANGED <<ledgerVars, tokenVars>>

\* PayPal answers the request in flight (or the fetch rejects).
Respond(answer) ==
    /\ call.result = "fetching"
    /\ call' = [call EXCEPT
                  !.seen = Append(@, answer),
                  !.result = IF \/ ShouldRetry(answer, call.retryCount)
                                \/ answer # "ok" /\ CatchRetries(
                                      ThrownMessage(call.api, call.id, answer),
                                      call.retryCount)
                             THEN "sleeping" ELSE answer]
    /\ UNCHANGED <<ledgerVars, tokenVars>>

\* The delay is over: the function calls itself with retryCount + 1 and the
\* next request goes out.
Wake ==
    /\ call.result = "sleeping"
    /\ call' = [call EXCEPT !.retryCount = @ + 1, !.requests = @ + 1,
                            !.result = "fetching"]
    /\ UNCHANGED <<ledgerVars, tokenVars>>

InitLookup ==
    /\ balance = 0
    /\ balance0 = 0
    /\ payments = {}
    /\ provider = LedgerProvider
    /\ paypalSkipVerification = FALSE
    /\ paypalUseSandbox = FALSE
    /\ pc = [p \in Procs |-> "done"]
    /\ req = [p \in Procs |-> NoRequest]
    /\ userBal = [p \in Procs |-> 0]
    /\ vres = [p \in Procs |-> NoResult]
    /\ verif = [p \in Procs |-> "none"]
    /\ resp = [p \in Procs |-> NoResponse]
    /\ credits = {}
    /\ look = [p \in Procs |-> NoLookups]
    /\ call = NoCall
    /\ TokenClientIdle

NextLookup ==
    \/ \E api \in Apis, id \in LookupIds : Invoke(api, id)
    \/ \E answer \in HttpAnswers : Respond(answer)
    \/ Wake

LookupSpec == InitLookup /\ [][NextLookup]_vars

\* ---------------------------------------------------------- the token client
\* getAccessToken as the chain of its recursive invocations, for NumProcs
\* concurrent callers sharing accessTokenCache.  tok[p].state is "idle",
\* "fetching" (the exchange request is in flight), "sleeping" (the delay
\* before a retry), "token" (a token was returned) or "failed" (it threw);
\* retryCount is the parameter of the innermost invocation, via tells a
\* returned token's origin.  Time is in seconds; tokens are numbered as
\* PayPal issues them.
TokenMaxRetries == 3

Margin == 60

MaxTime == 4

MaxTokens == 2

MaxTokenRequests == 5

\* expires_in of a token response.
ExpiresInValues == {61, 62}

\* Seconds between PayPal issuing a token and the client handling the response.
Latencies == {0, 2}

\* A non-2xx answer of the token endpoint, or a rejected fetch.
TokenFailures == {"503", "SERVICE_UNAVAILABLE", "401", "network"}

TokenCall(state, retryCount, token, via) ==
    [state |-> state, retryCount |-> retryCount, token |-> token, via |-> via]

\* Faulty variant: a cached token is used whatever its expiresAt.
CacheFresh_NoExpiry == accessTokenCache # NoToken

\* accessTokenCache && accessTokenCache.expiresAt > Date.now()
CacheFresh == accessTokenCache # NoToken /\ accessTokenCache.expiresAt > now

\* response.status === 503 || (name === 'SERVICE_UNAVAILABLE' && retryCount <
\* maxRetries) in the !response.ok branch; "fetch" in the message in the catch.
TokenShouldRetry(answer, retryCount) ==
    \/ answer = "503"
    \/ answer = "SERVICE_UNAVAILABLE" /\ retryCount < TokenMaxRetries
    \/ answer = "network" /\ retryCount < TokenMaxRetries

\* The payment and lookup state, which the token client leaves alone.
clientVars == <<ledgerVars, call>>

\* An invocation with parameter retryCount up to its first await: the cached
\* token, the missing-credentials error, or the exchange request.
Enter(p, retryCount) ==
    tok' = [tok EXCEPT ![p] =
              IF CacheFresh
              THEN TokenCall("token", retryCount, accessTokenCache.token, "cache")
              ELSE IF ~credentials
              THEN TokenCall("failed", retryCount, 0, "none")
              ELSE TokenCall("fetching", retryCount, 0, "none")]

\* A lookup calls getAccessToken().
GetAccessToken(p) ==
    /\ tok[p].state = "idle"
    /\ Enter(p, 0)
    /\ UNCHANGED <<clientVars, accessTokenCache, credentials, now, rejected,
                   issued>>

\* The token endpoint answered 2xx with a new token of lifetime expiresIn,
\* issued latency seconds before the response is handled: the token is
\* stored with expiresAt = Date.now() + (expires_in - 60) and returned.
TokenGranted(p, expiresIn, latency) ==
    /\ tok[p].state = "fetching"
    /\ Cardinality(issued) < MaxTokens
    /\ latency <= now
    /\ LET token == Cardinality(issued) + 1
           stored == [token |-> token, expiresAt |-> now + (expiresIn - Margin)]
       IN /\ accessTokenCache' = stored
          /\ issued' = issued \cup
                {[token |-> token, at |-> now - latency, handled |-> now,
                  expiresIn |-> expiresIn]}
          /\ tok' = [tok EXCEPT ![p] =
                       TokenCall("token", tok[p].retryCount, token, "exchange")]
    /\ UNCHANGED <<clientVars, credentials, now, rejected>>

\* Faulty variant: a failed exchange empties the cache.
TokenRefused_ClearsCache(p, answer) ==
    /\ tok[p].state = "fetching"
    /\ IF TokenShouldRetry(answer, tok[p].retryCount)
       THEN /\ tok[p].retryCount + 1 < MaxTokenRequests
            /\ tok' = [tok EXCEPT ![p].state = "sleeping"]
       ELSE tok' = [tok EXCEPT ![p].state = "failed"]
    /\ accessTokenCache' = NoToken
    /\ UNCHANGED <<clientVars, credentials, now, rejected, issued>>

\* The token endpoint answers non-2xx, or the fetch rejects: a retry after
\* a delay, or the error.  The model follows an invocation for at most
\* MaxTokenRequests requests.
TokenRefused(p, answer) ==
    /\ tok[p].state = "fetching"
    /\ IF TokenShouldRetry(answer, tok[p].retryCount)
       THEN /\ tok[p].retryCount + 1 < MaxTokenRequests
            /\ tok' = [tok EXCEPT ![p].state = "sleeping"]
       ELSE tok' = [tok EXCEPT ![p].state = "failed"]
    /\ UNCHANGED <<clientVars, accessTokenCache, credentials, now, rejected,
                   issued>>

\* The delay is over: getAccessToken(retryCount + 1).
TokenWake(p) ==
    /\ tok[p].state = "sleeping"
    /\ Enter(p, tok[p].retryCount + 1)
    /\ UNCHANGED <<clientVars, accessTokenCache, credentials, now, rejected,
                   issued>>

\* The lookup sends its request with the token returned and PayPal answers
\* it, "401" when it rejects the token.  Neither verifyPayPalOrder nor
\* verifyPayPalCapture touches accessTokenCache.
LookupWithToken(p, answer) ==
    /\ tok[p].state = "token"
    /\ rejected' = IF answer = "401" THEN rejected \cup {tok[p].token} ELSE rejected
    /\ tok' = [tok EXCEPT ![p] = NoTokenCall]
    /\ UNCHANGED <<clientVars, accessTokenCache, credentials, now, issued>>

\* getAccessToken threw: the lookup fails without a request.
TokenError(p) ==
    /\ tok[p].state = "failed"
    /\ tok' = [tok EXCEPT ![p] = NoTokenCall]
    /\ UNCHANGED <<clientVars, accessTokenCache, credentials, now, rejected,
                   issued>>

\* A second passes.
Tick ==
    /\ now < MaxTime
    /\ now' = now + 1
    /\ UNCHANGED <<clientVars, accessTokenCache, credentials, tok, rejected,
                   issued>>

InitToken ==
    /\ balance = 0
    /\ balance0 = 0
    /\ payments = {}
    /\ provider = LedgerProvider
    /\ paypalSkipVerification = FALSE
    /\ paypalUseSandbox = FALSE
    /\ pc = [p \in Procs |-> "done"]
    /\ req = [p \in Procs |-> NoRequest]
    /\ userBal = [p \in Procs |-> 0]
    /\ vres = [p \in Procs |-> NoResult]
    /\ verif = [p \in Procs |-> "none"]
    /\ resp = [p \in Procs |-> NoResponse]
    /\ credits = {}
    /\ look = [p \in Procs |-> NoLookups]
    /\ call = NoCall
    /\ accessTokenCache = NoToken
    /\ credentials \in BOOLEAN
    /\ now = 0
    /\ tok = [p \in {1} |-> NoTokenCall]
    /\ rejected = {}
    /\ issued = {}

NextToken ==
    \/ Tick
    \/ \E p \in DOMAIN tok :
          \/ GetAccessToken(p)
          \/ \E e \in ExpiresInValues, l \in Latencies : TokenGranted(p, e, l)
          \/ \E a \in TokenFailures : TokenRefused(p, a)
          \/ TokenWake(p)
          \/ \E a \in {"ok", "401"} : LookupWithToken(p, a)
          \/ TokenError(p)

\* One caller at a time, with the clock running.
TokenSpec == InitToken /\ [][NextToken]_vars

\* The lookups of NumProcs requests call getAccessToken concurrently, all
\* within one second, starting with an empty cache.
NextTokenRace ==
    \E p \in DOMAIN tok :
        \/ GetAccessToken(p)
        \/ \E e \in ExpiresInValues : TokenGranted(p, e, 0)
        \/ \E a \in TokenFailures : TokenRefused(p, a)
        \/ TokenWake(p)
        \/ \E a \in {"ok", "401"} : LookupWithToken(p, a)
        \/ TokenError(p)

TokenRaceSpec == InitLookup /\ [][NextTokenRace]_vars

\* ------------------------------------------------- the two normalizer sites
\* GET /auth/me (getCurrentUserController) formats the user it loaded;
\* formatUser converts a legacy balance in the document, starts its save
\* without awaiting it and returns the converted balance in the payload.
MeRequest(auth, uid) == Request(auth, uid, FALSE, 0, "", NoId, NoId)

MeRequests == {MeRequest(TRUE, AccountId), MeRequest(FALSE, AccountId), MeRequest(TRUE, "U9")}

\* Faulty variant: the boundary balance 1000 is converted too.
FormatUserBalance_Inclusive(b) == IF b >= LegacyThreshold THEN b \div 1000 ELSE b

\* formatUser: let balance = user.balance; if (balance > 1000) balance /= 1000
FormatUserBalance(b) == IF b > LegacyThreshold THEN b \div 1000 ELSE b

\* The request arrives: the check made before the first await.
Me(p, r) ==
    /\ pc[p] = "idle"
    /\ req' = [req EXCEPT ![p] = r]
    /\ IF ~r.auth
       THEN Finish(p, Response(401, "Unauthorized", 0))
       ELSE /\ pc' = [pc EXCEPT ![p] = "meFindUser"]
            /\ UNCHANGED <<resp, userBal>>
    /\ UNCHANGED <<balance, payments, provider, paypalSkipVerification,
                   paypalUseSandbox, vres, verif, credits, balance0, look, call, tokenVars>>

\* UserModel.findById answers and formatUser runs: the response carries the
\* converted balance; the save of a converted document is still to come.
MeFindUser(p) ==
    /\ pc[p] = "meFindUser"
    /\ IF req[p].userId # AccountId
       THEN Finish(p, Response(404, "UserNotFound", 0))
       ELSE /\ resp' = [resp EXCEPT ![p] = Response(200, "User", FormatUserBalance(balance))]
            /\ IF balance > LegacyThreshold
               THEN /\ userBal' = [userBal EXCEPT ![p] = FormatUserBalance(balance)]
                    /\ pc' = [pc EXCEPT ![p] = "fmtSave"]
               ELSE /\ pc' = [pc EXCEPT ![p] = "done"]
                    /\ UNCHANGED userBal
    /\ UNCHANGED <<balance, payments, provider, paypalSkipVerification,
                   paypalUseSandbox, req, vres, verif, credits, balance0, look, call, tokenVars>>

\* The save formatUser started completes.
FmtSave(p) ==
    /\ pc[p] = "fmtSave"
    /\ balance' = userBal[p]
    /\ pc' = [pc EXCEPT ![p] = "done"]
    /\ userBal' = [userBal EXCEPT ![p] = 0]
    /\ UNCHANGED <<payments, provider, paypalSkipVerification, paypalUseSandbox,
                   req, vres, verif, resp, credits, balance0, look, call, tokenVars>>

\* Stored balances the normalizers meet: major units up to the boundary 1000,
\* the new-user credit 1.00, and legacy values, one of them above 1000000.
NormBalances ==
    {0, Pound, 999 * Pound, 1000 * Pound, 1001 * Pound, 40050 * Pound,
     1000000 * Pound, 2000000 * Pound}

\* A submission of an order that was recorded before: it loads the user,
\* normalizes, and is answered by the pre-check, so it never credits.
NormRequests == {Request(TRUE, AccountId, TRUE, 5000, "GBP", "O1", "C1")}

InitNorm ==
    /\ balance \in NormBalances
    /\ balance0 = balance
    /\ provider = LedgerProvider
    /\ paypalSkipVerification = FALSE
    /\ paypalUseSandbox = FALSE
    /\ payments = {PaymentRecord(0, r, NoResult) : r \in NormRequests}
    /\ pc = [p \in Procs |-> "idle"]
    /\ req = [p \in Procs |-> NoRequest]
    /\ userBal = [p \in Procs |-> 0]
    /\ vres = [p \in Procs |-> NoResult]
    /\ verif = [p \in Procs |-> "none"]
    /\ resp = [p \in Procs |-> NoResponse]
    /\ credits = {}
    /\ look = [p \in Procs |-> NoLookups]
    /\ call = NoCall
    /\ TokenClientIdle

NextNorm ==
    \E p \in Procs :
        \/ \E r \in NormRequests : Submit(p, r)
        \/ FindUser(p)
        \/ NormSave(p)
        \/ CheckExisting(p)
        \/ \E r \in MeRequests : Me(p, r)
        \/ MeFindUser(p)
        \/ FmtSave(p)

NormSpec == InitNorm /\ [][NextNorm]_vars

\* ------------------------------------------------------ generation purchase
\* POST /generations (createGenerationController): cost is req.body.cost in
\* the smallest currency units; complete is "mediaType, name, prompt and
\* cost are present".
GenRequest(auth, uid, complete, cost) == Request(auth, uid, complete, cost, "", NoId, NoId)

\* const costInPounds = cost / 1000
CostInPounds(cost) == (cost * Pound) \div 1000

\* Faulty variant: the balance is never found insufficient.
Insufficient_Never(bal, costInPounds) == FALSE

\* user.balance < costInPounds
Insufficient(bal, costInPounds) == bal < costInPounds

\* The request arrives: the checks made before the first await.
Generate(p, r) ==
    /\ pc[p] = "idle"
    /\ req' = [req EXCEPT ![p] = r]
    /\ IF ~r.auth
       THEN Finish(p, Response(401, "Unauthorized", 0))
       ELSE IF ~r.finite
       THEN Finish(p, Response(400, "FieldsRequired", 0))
       ELSE /\ pc' = [pc EXCEPT ![p] = "genFindUser"]
            /\ UNCHANGED <<resp, userBal>>
    /\ UNCHANGED <<balance, payments, provider, paypalSkipVerification,
                   paypalUseSandbox, vres, verif, credits, balance0, look, call, tokenVars>>

\* UserModel.findById answers: the balance as stored is compared with the
\* cost and the cost is taken off the loaded document.
GenFindUser(p) ==
    /\ pc[p] = "genFindUser"
    /\ IF req[p].userId # AccountId
       THEN Finish(p, Response(404, "UserNotFound", 0))
       ELSE IF Insufficient(balance, CostInPounds(req[p].amount))
       THEN Finish(p, Response(400, "InsufficientBalance", 0))
       ELSE /\ userBal' = [userBal EXCEPT ![p] = balance - CostInPounds(req[p].amount)]
            /\ pc' = [pc EXCEPT ![p] = "genSave"]
            /\ UNCHANGED resp
    /\ UNCHANGED <<balance, payments, provider, paypalSkipVerification,
                   paypalUseSandbox, req, vres, verif, credits, balance0, look, call, tokenVars>>

\* user.save() of the debited balance.
GenSave(p) ==
    /\ pc[p] = "genSave"
    /\ balance' = userBal[p]
    /\ pc' = [pc EXCEPT ![p] = "genCreate"]
    /\ UNCHANGED <<payments, provider, paypalSkipVerification, paypalUseSandbox,
                   req, userBal, vres, verif, resp, credits, balance0, look, call, tokenVars>>

\* The uploads and generation.save(): 201, or next(error) when the save
\* fails; the debit stays either way.
GenCreate(p, saved) ==
    /\ pc[p] = "genCreate"
    /\ Finish(p, IF saved THEN Response(201, "Generation", 0)
                 ELSE Response(500, "StoreError", 0))
    /\ UNCHANGED <<balance, payments, provider, paypalSkipVerification,
                   paypalUseSandbox, req, vres, verif, credits, balance0, look, call, tokenVars>>

\* Stored balances the purchases meet, in pounds and legacy: 5, 998, and the
\* legacy 40050 (meant as 40.05 pounds).
PurchaseBalances == {5 * Pound, 998 * Pound, 40050 * Pound}

\* Costs of 5 and of 50 pounds; a request without its required fields.
GenRequests ==
    {GenRequest(TRUE, AccountId, TRUE, 5000), GenRequest(TRUE, AccountId, TRUE, 50000),
     GenRequest(TRUE, AccountId, FALSE, 0), GenRequest(FALSE, AccountId, TRUE, 5000),
     GenRequest(TRUE, "U9", TRUE, 5000)}

\* A payment of 5 pounds on order O1 with its capture.
PurchasePayments == {Request(TRUE, AccountId, TRUE, 5000, "GBP", "O1", "C1")}

InitPurchase ==
    /\ balance \in PurchaseBalances
    /\ balance0 = balance
    /\ payments = {}
    /\ provider = LedgerProvider
    /\ \E e \in EnvSettings :
          /\ paypalSkipVerification = e[1]
          /\ paypalUseSandbox = e[2]
    /\ pc = [p \in Procs |-> "idle"]
    /\ req = [p \in Procs |-> NoRequest]
    /\ userBal = [p \in Procs |-> 0]
    /\ vres = [p \in Procs |-> NoResult]
    /\ verif = [p \in Procs |-> "none"]
    /\ resp = [p \in Procs |-> NoResponse]
    /\ credits = {}
    /\ look = [p \in Procs |-> NoLookups]
    /\ call = NoCall
    /\ TokenClientIdle

NextPurchase ==
    \E p \in Procs :
        \/ \E r \in PurchasePayments : Submit(p, r)
        \/ FindUser(p)
        \/ NormSave(p)
        \/ CheckExisting(p)
        \/ FetchCapture(p)
        \/ FetchOrderInfo(p)
        \/ Create(p)
        \/ Reread(p)
        \/ CreditSave(p)
        \/ Me(p, MeRequest(TRUE, AccountId))
        \/ MeFindUser(p)
        \/ FmtSave(p)
        \/ \E r \in GenRequests : Generate(p, r)
        \/ GenFindUser(p)
        \/ GenSave(p)
        \/ \E saved \in BOOLEAN : GenCreate(p, saved)

\* Payments, account reads and generation purchases of one account, in any
\* interleaving.
PurchaseSpec == InitPurchase /\ [][NextPurchase]_vars

\* -------------------------------------------------------------------- claims
RECURSIVE SumAmounts(_)
SumAmounts(S) ==
    IF S = {} THEN 0
    ELSE LET d == CHOOSE x \in S : TRUE
         IN AmountInPounds(d.amount) + SumAmounts(S \ {d})

AllDone == \A p \in Procs : pc[p] = "done"

NoStoreError == \A p \in Procs : resp[p].status # 500

RecordsOf(o) == {d \in payments : d.externalId = o}

CreditsOf(o) == {c \in credits : c.orderId = o}

\* C1: among the submissions carrying one orderId, at most one inserts a
\* PaymentRecord and at most one credits the balance; once all submissions are
\* answered and no store operation failed, a recorded order has exactly one
\* credit, of the recorded amount / 1000.
C1_OneRecordOneCredit ==
    \A o \in OrderIds :
        /\ Cardinality(RecordsOf(o)) <= 1
        /\ Cardinality(CreditsOf(o)) <= 1
        /\ \A c \in CreditsOf(o) : \E d \in RecordsOf(o) : d.by = c.by
        /\ (AllDone /\ NoStoreError) =>
             \A d \in RecordsOf(o) :
                \E c \in CreditsOf(o) :
                    /\ CreditsOf(o) = {c}
                    /\ c.by = d.by
                    /\ c.amount = AmountInPounds(d.amount)

\* Two submissions of the same order both got past verification; one was
\* recorded and credited, the other was rejected by the index.
C1_Witness ==
    /\ AllDone
    /\ \E p, q \in Procs :
         /\ p # q
         /\ req[p].orderId = req[q].orderId
         /\ resp[p].kind = "Recorded"
         /\ resp[q].kind = "AlreadyProcessed"
         /\ Cardinality(CreditsOf(req[p].orderId)) = 1

\* C2: a completed capture of PayPal gives rise to at most one balance
\* credit, also when it is presented under different orderIds.
C2_OneCreditPerCapture ==
    \A c1, c2 \in credits :
        (c1.captureId # NoId /\ c1.captureId = c2.captureId) => c1 = c2

\* C3: once verified submissions for distinct orders have all been recorded,
\* the stored balance is the normalized starting balance plus the sum of
\* amount / 1000 over the inserted records.
C3_NoLostCredit ==
    (/\ \A p \in Procs :
            pc[p] = "done" /\ resp[p].kind = "Recorded" /\ verif[p] = "verified"
     /\ \A p, q \in Procs : p # q => req[p].orderId # req[q].orderId)
    => balance = Normalized(balance0) + SumAmounts(payments)

\* C4: no two PaymentRecords share (provider, externalId).
C4_UniqueExternalId ==
    \A d1, d2 \in payments :
        (d1.provider = d2.provider /\ d1.externalId = d2.externalId) => d1 = d2

\* An insert has just been rejected by the index: the order is recorded and
\* the rejected request is about to re-read the balance.
C4_Witness ==
    \E p \in Procs :
        /\ pc[p] = "reread"
        /\ \E d \in payments : d.externalId = req[p].orderId /\ d.by # p

\* C5: whenever a submission is answered as a duplicate (by the pre-check or
\* after a rejected insert) and no store operation has failed, the order's
\* credit has already been applied and the balance returned is the stored
\* balance, which includes it.
C5_DuplicateSeesCredit ==
    [][\A p \in Procs :
         (/\ pc[p] # "done"
          /\ pc'[p] = "done"
          /\ resp'[p].kind \in {"AlreadyProcessed", "DuplicateAttempt"}
          /\ NoStoreError')
         => /\ CreditsOf(req[p].orderId) # {}
            /\ resp'[p].balance = balance]_vars

\* C6: a submission stopped by the pre-check is answered with success.
C6_PrecheckIsSuccess ==
    \A p \in Procs : resp[p].kind = "DuplicateAttempt" => resp[p].status = 200

\* C7 as claimed: every record and every credit comes from a submission whose
\* provider verification returned verified = true.
C7_OnlyVerified ==
    /\ \A d \in payments : verif[d.by] = "verified"
    /\ \A c \in credits : verif[c.by] = "verified"

\* C7 as amended: every record and every credit comes from a submission whose
\* provider verification returned verified = true, or from one made while
\* both paypalSkipVerification and paypalUseSandbox are set.
C7_VerifiedOrSkipped ==
    /\ \A d \in payments :
         \/ verif[d.by] = "verified" /\ vres[d.by].verified
         \/ verif[d.by] = "skipped" /\ paypalSkipVerification /\ paypalUseSandbox
    /\ \A c \in credits :
         \/ verif[c.by] = "verified" /\ vres[c.by].verified
         \/ verif[c.by] = "skipped" /\ paypalSkipVerification /\ paypalUseSandbox

\* Both kinds of record are inserted: here one that skipped verification has
\* been credited.
C7_Witness ==
    \E c \in credits : verif[c.by] = "skipped" /\ \E d \in payments : d.by = c.by

\* C8: a submission whose verification returns verified = false is answered
\* 402 VerificationFailed, inserts no record and credits nothing; and 402 is
\* the answer of no other outcome, in particular of no provider error.
C8_NotVerifiedIs402 ==
    \A p \in Procs :
        /\ verif[p] = "unverified" =>
             /\ pc[p] = "done"
             /\ resp[p].status = 402
             /\ \A d \in payments : d.by # p
             /\ \A c \in credits : c.by # p
        /\ (pc[p] = "done" /\ verif[p] # "unverified") => resp[p].status # 402

\* One submission was refused as not verified, another ended in a provider
\* error.
C8_Witness ==
    \E p, q \in Procs :
        /\ verif[p] = "unverified" /\ resp[p].status = 402
        /\ verif[q] = "error" /\ resp[q].status \in {502, 503}

\* The capture a finished verification decided on.
Decided(p) == verif[p] \in {"verified", "unverified"} /\ vres[p].captureDetails # NoCapture

\* C9: on a COMPLETED capture in the expected currency, either strategy
\* returns verified = true when |captured - expected| <= 0.01 and
\* verified = false when the difference is larger.
C9_Tolerance ==
    \A p \in Procs :
        (/\ Decided(p)
         /\ vres[p].captureDetails.status = "COMPLETED"
         /\ vres[p].captureDetails.currency = req[p].currency)
        => (vres[p].verified <=>
              Abs(vres[p].captureDetails.value - AmountInPounds(req[p].amount)) <= Tolerance)

\* C10: a capture whose currency differs from the expected one is never
\* verified, whatever its amount, in either strategy.
C10_CurrencyExact ==
    \A p \in Procs :
        (/\ vres[p].captureDetails # NoCapture
         /\ vres[p].captureDetails.currency # req[p].currency)
        => /\ ~vres[p].verified
           /\ verif[p] # "verified"

\* A COMPLETED capture of exactly the expected amount in another currency
\* was refused.
C10_Witness ==
    \E p \in Procs :
        /\ verif[p] = "unverified"
        /\ vres[p].captureDetails.status = "COMPLETED"
        /\ vres[p].captureDetails.currency # req[p].currency
        /\ vres[p].captureDetails.value = AmountInPounds(req[p].amount)

\* The first capture the order lookup of request p reported.
OrderCapture(p) == FirstCapture(LookupOrder(provider, req[p].orderId))

\* The fallback case: the capture lookup of p ended not-found and the order
\* lookup returned the order.
FellBack(p) == look[p].capture = "404" /\ look[p].order = "ok"

\* C11: when the lookup of the supplied captureId fails with not-found and the
\* order lookup returns a COMPLETED order whose first capture is COMPLETED,
\* in the expected currency and with an amount within the tolerance, the
\* verification ends verified through the order strategy.
C11_FallbackVerifies ==
    \A p \in Procs :
        ( /\ req[p].captureId # NoId
          /\ FellBack(p)
          /\ LookupOrder(provider, req[p].orderId).status = "COMPLETED"
          /\ OrderCapture(p).status = "COMPLETED"
          /\ OrderCapture(p).currency = req[p].currency
          /\ Abs(OrderCapture(p).value - (req[p].amount * Pound) \div 1000) <= Tolerance )
        => /\ verif[p] = "verified"
           /\ vres[p].verified
           /\ vres[p].captureDetails = OrderCapture(p)

\* C12: the environment-mismatch failure (both capture and order not found)
\* is raised exactly when the capture lookup and the order lookup both ended
\* not-found; one not-found beside a failure of another kind gives a
\* different failure.
C12_MismatchIffBothNotFound ==
    \A p \in Procs :
        resp[p].kind = "EnvironmentMismatch"
            <=> (look[p].capture = "404" /\ look[p].order = "404")

\* The first n answers of the lookup were all HTTP 503.
Consecutive503(n) ==
    /\ Len(call.seen) >= n
    /\ \A i \in 1..n : call.seen[i] = "503"

C14_ExhaustedIsUnavailable ==
    \A p \in Procs :
        (verif[p] = "error" /\ look[p].order \in {"503", "SERVICE_UNAVAILABLE", "network"})
        => (resp[p].status = 503 /\ resp[p].kind = "ServiceUnavailable")

\* C15: the credit of a successful submission increases the stored balance by
\* exactly the claimed amount divided by 1000 (a claimed 5000 adds 5.00), and
\* the response reports the resulting balance.
C15_CreditIsClaimedAmount ==
    [][\A p \in Procs :
          (pc[p] = "creditSave" /\ verif[p] = "verified" /\ resp'[p].kind = "Recorded")
          => /\ (balance' - balance) * 1000 = req[p].amount * Pound
             /\ resp'[p].balance = balance']_vars

\* C16: each normalizer site (the payment controller and formatUser) divides
\* a loaded balance above 1000 by 1000 and saves the result, and leaves a
\* balance of at most 1000, the boundary 1000 included, as it is without a
\* write; the stored balance changes only by the save of such a result.
C16_NormalizeAtBothSites ==
    [][\A p \in Procs :
          /\ (pc[p] = "findUser" /\ pc'[p] \in {"normSave", "findPayment"})
             => IF balance > 1000 * Pound
                THEN userBal'[p] * 1000 = balance /\ pc'[p] = "normSave"
                ELSE userBal'[p] = balance /\ pc'[p] = "findPayment"
          /\ (pc[p] = "meFindUser" /\ resp'[p].kind = "User")
             => IF balance > 1000 * Pound
                THEN /\ resp'[p].balance * 1000 = balance
                     /\ userBal'[p] = resp'[p].balance
                     /\ pc'[p] = "fmtSave"
                ELSE resp'[p].balance = balance /\ pc'[p] = "done"
          /\ (pc[p] \in {"normSave", "fmtSave"} /\ pc'[p] # pc[p])
             => balance' = userBal[p]
          /\ (pc[p] \notin {"normSave", "fmtSave"} /\ pc'[p] # pc[p])
             => balance' = balance]_vars

\* Both sites have met the boundary balance 1000 and left it alone.
C16_Witness ==
    /\ balance0 = 1000 * Pound
    /\ balance = 1000 * Pound
    /\ \E p, q \in Procs :
          /\ pc[p] = "done" /\ resp[p].kind = "DuplicateAttempt"
          /\ resp[p].balance = 1000 * Pound
          /\ pc[q] = "done" /\ resp[q].kind = "User"
          /\ resp[q].balance = 1000 * Pound

\* The balances some formatUser call has put in its payload.
Payloads == {resp[p].balance : p \in {q \in Procs : resp[q].kind = "User"}}

\* C17: normalization is idempotent for every balance: with only normalizers
\* at work, the stored balance is the initial one or its normalization, and
\* every payload is the normalization of the initial balance, however often
\* the account is normalized (40050 becomes 40.05 and stays 40.05).
C17_Idempotent ==
    /\ Normalized(Normalized(balance0)) = Normalized(balance0)
    /\ FormatUserBalance(FormatUserBalance(balance0)) = FormatUserBalance(balance0)
    /\ balance \in {balance0, Normalized(balance0)}
    /\ Payloads \subseteq {Normalized(balance0)}

\* The request of p carries a non-finite or non-positive amount, or no
\* string as orderId.
InvalidInput(p) ==
    /\ req[p].auth
    /\ \/ ~req[p].finite
       \/ req[p].amount <= 0
       \/ req[p].orderId = NoId

\* C18: a submission with a non-finite or non-positive amount, or with a
\* missing or non-string orderId, is answered 400 at once: it never waits on
\* the store or on PayPal, so it reads no user, makes no lookup, inserts no
\* record and credits nothing.
C18_InvalidInputRejectedFirst ==
    \A p \in Procs :
        InvalidInput(p)
        => /\ pc[p] = "done"
           /\ resp[p].status = 400
           /\ userBal[p] = 0
           /\ look[p] = NoLookups
           /\ vres[p] = NoResult
           /\ {d \in payments : d.by = p} = {}
           /\ {c \in credits : c.by = p} = {}
           /\ balance = balance0

C18_Witness ==
    \E p \in Procs :
        /\ InvalidInput(p)
        /\ req[p].amount = -5000
        /\ resp[p] = Response(400, "InvalidAmount", 0)

\* The capture PayPal holds under the captureId of request p.
SuppliedCapture(p) == LookupCapture(provider, req[p].captureId)

\* The capture lookup of p returned a COMPLETED capture in the claimed
\* currency whose amount differs from the claimed one by less than 0.01.
CaptureMatches(p) ==
    /\ req[p].captureId # NoId
    /\ look[p].capture = "ok"
    /\ SuppliedCapture(p).status = "COMPLETED"
    /\ SuppliedCapture(p).currency = req[p].currency
    /\ Abs(SuppliedCapture(p).value * 1000 - req[p].amount * Pound) < Tolerance * 1000

C19_WitnessOrderFailed ==
    \E p \in Procs :
        /\ CaptureMatches(p)
        /\ look[p].order \in {"404", "401", "503"}
        /\ vres[p].verified

\* C20: every PaymentRecord has status completed, and no step deletes a
\* record or changes one: the collection only grows.
C20_RecordsCompletedAndKept ==
    [][/\ payments \subseteq payments'
       /\ \A d \in payments' : d.status = "completed"]_vars

\* Two submissions have each inserted their record.
C20_Witness ==
    /\ Cardinality(payments) = 2
    /\ \A d \in payments : d.status = "completed"
    /\ \A p \in Procs : pc[p] = "done"

\* C21: getAccessToken makes a bounded number of exchange attempts whatever
\* the token endpoint answers, a 503 on every attempt included: one request
\* and at most maxRetries retries.
C21_BoundedExchangeAttempts ==
    \A p \in DOMAIN tok : tok[p].retryCount <= TokenMaxRetries

\* The request inserted its record and then failed with a store error: the
\* save of the balance is the only store operation after the insert.
CreditFailed(p) == resp[p].kind = "StoreError" /\ \E d \in payments : d.by = p

\* C22: when the save of the balance fails after the record was inserted, the
\* step answers 500 and leaves the stored balance and the record alone; from
\* then on the record stays, no credit is ever made for the order, and every
\* pre-check of another submission of the order answers as a duplicate.
C22_FailedCreditLeavesRecord ==
    [][\A p \in Procs :
          /\ (pc[p] = "creditSave" /\ resp'[p].kind = "StoreError")
             => /\ resp'[p].status = 500
                /\ balance' = balance
                /\ payments' = payments
                /\ \E d \in payments : d.by = p
          /\ CreditFailed(p)
             => /\ \E d \in payments' : d.by = p
                /\ {c \in credits' : c.orderId = req[p].orderId} = {}
                /\ \A q \in Procs \ {p} :
                      (req[q].orderId = req[p].orderId /\ CheckExisting(q))
                      => /\ resp'[q].kind = "DuplicateAttempt"
                         /\ balance' = balance]_vars

\* One submission failed at the save of the balance, a later one of the same
\* order was answered as a duplicate, and the order was never credited.
C22_Witness ==
    \E p \in Procs, q \in Procs :
        /\ p # q
        /\ CreditFailed(p)
        /\ req[q].orderId = req[p].orderId
        /\ resp[q].kind = "DuplicateAttempt"
        /\ CreditsOf(req[p].orderId) = {}
        /\ balance = balance0

\* C23: a balance in major units is not changed by a later read: when the
\* account starts at or below the threshold, no request ever converts the
\* balance, whatever credits came before its read.
C23_MajorUnitsStay ==
    balance0 <= LegacyThreshold => \A p \in Procs : pc[p] # "normSave"

\* The account started with a legacy balance b, 1000 < b <= 1000000.
LegacyStart == balance0 > LegacyThreshold /\ balance0 <= 1000 * LegacyThreshold

\* The request loaded the account: it was answered after its normalizer ran.
Loaded(p) == resp[p].kind \in {"DuplicateAttempt", "User"}

\* C24: normalizations of one account with legacy balance b, 1000 < b <=
\* 1000000, in any interleaving and with no other writer: the stored balance
\* is b or b / 1000 throughout, and b / 1000 once all of them have completed.
C24_DividedExactlyOnce ==
    LegacyStart
    => /\ balance \in {balance0, balance0 \div 1000}
       /\ (AllDone /\ \E p \in Procs : Loaded(p)) => balance = balance0 \div 1000

\* Every request has loaded the legacy account and completed; the balance was
\* divided once.
C24_Witness ==
    /\ LegacyStart
    /\ AllDone
    /\ \A p \in Procs : Loaded(p)
    /\ \E p \in Procs : resp[p].kind = "User"
    /\ \E p \in Procs : resp[p].kind = "DuplicateAttempt"
    /\ balance = balance0 \div 1000
    /\ balance # balance0

\* Two normalizations in flight at once: both read the legacy balance and
\* neither has saved yet.
C24_WitnessInFlight ==
    /\ LegacyStart
    /\ \E p \in Procs, q \in Procs : pc[p] = "normSave" /\ pc[q] = "fmtSave"
    /\ balance = balance0

\* Strategy 2 was entered as the fallback of strategy 1 or for want of a
\* captureId: the order lookup is awaited, or it answered after a capture
\* lookup that did not return a capture.
FallbackEntered(p) ==
    \/ pc[p] = "fetchOrder"
    \/ look[p].order # "none" /\ look[p].capture # "ok"

\* C25: the order strategy is entered only without a captureId or after a
\* capture lookup that ended not-found or in an exhausted transient failure;
\* never after a capture lookup that PayPal rejected with 401.
C25_FallbackOnlyWhenRecoverable ==
    \A p \in Procs :
        FallbackEntered(p)
        => \/ req[p].captureId = NoId
           \/ look[p].capture \in {"404", "503", "SERVICE_UNAVAILABLE", "network"}

\* The capture lookup of p returned a capture that is not COMPLETED, or is in
\* another currency, or whose amount is more than 0.01 away from the claim.
CaptureRejected(p) ==
    /\ req[p].captureId # NoId
    /\ look[p].capture = "ok"
    /\ \/ SuppliedCapture(p).status # "COMPLETED"
       \/ SuppliedCapture(p).currency # req[p].currency
       \/ Abs(SuppliedCapture(p).value * 1000 - req[p].amount * Pound) > Tolerance * 1000

\* C26: after a capture lookup that returned a capture which is not
\* COMPLETED or mismatches in currency or amount, the verification ends
\* with verified = false and that capture as snapshot, without an error and
\* without an order lookup; the request is answered "verification failed".
C26_RejectedCaptureIsUnverified ==
    \A p \in Procs :
        CaptureRejected(p)
        => /\ verif[p] = "unverified"
           /\ ~vres[p].verified
           /\ vres[p].captureDetails = SuppliedCapture(p)
           /\ vres[p].orderDetails = NoOrder
           /\ look[p].order = "none"
           /\ resp[p] = VerificationFailedResponse

\* A COMPLETED capture in the claimed currency with another amount was
\* returned although the order of the submission would have verified.
C26_Witness ==
    \E p \in Procs :
        /\ CaptureRejected(p)
        /\ SuppliedCapture(p).status = "COMPLETED"
        /\ SuppliedCapture(p).currency = req[p].currency
        /\ CaptureAccepted(OrderCapture(p), AmountInPounds(req[p].amount), req[p].currency)
        /\ LookupOrder(provider, req[p].orderId).status = "COMPLETED"
        /\ resp[p].status = 402

\* A PENDING capture was returned.
C26_WitnessPending ==
    \E p \in Procs :
        /\ CaptureRejected(p)
        /\ SuppliedCapture(p).status = "PENDING"
        /\ pc[p] = "done"

\* The order PayPal holds under the orderId of request p.
SubmittedOrder(p) == LookupOrder(provider, req[p].orderId)

\* Strategy 2 decided for p: the order lookup returned the order after no
\* capture lookup, or after one that failed.
OrderDecided(p) == look[p].order = "ok" /\ look[p].capture # "ok"

\* C27: in the order strategy an order that is not COMPLETED or has no
\* capture is not verified; otherwise the first capture alone decides:
\* verified requires it to be COMPLETED, in the claimed currency and within
\* 0.01 of the claimed amount, and it is verified when it is COMPLETED, in the
\* claimed currency and closer than 0.01, whatever further captures follow.
C27_FirstCaptureDecides ==
    \A p \in Procs :
        OrderDecided(p)
        => LET order == SubmittedOrder(p)
           IN /\ vres[p].orderDetails = order
              /\ verif[p] = IF vres[p].verified THEN "verified" ELSE "unverified"
              /\ IF order.status # "COMPLETED" \/ Len(order.captures) = 0
                 THEN ~vres[p].verified /\ vres[p].captureDetails = NoCapture
                 ELSE LET first == order.captures[1]
                          diff == Abs(first.value * 1000 - req[p].amount * Pound)
                      IN /\ vres[p].captureDetails = first
                         /\ vres[p].verified
                            => /\ first.status = "COMPLETED"
                               /\ first.currency = req[p].currency
                               /\ diff <= Tolerance * 1000
                         /\ (/\ first.status = "COMPLETED"
                             /\ first.currency = req[p].currency
                             /\ diff < Tolerance * 1000)
                            => vres[p].verified

\* An order with two captures was decided on the first: not verified
\* although the second capture is COMPLETED with the claimed amount.
C27_Witness ==
    \E p \in Procs :
        /\ OrderDecided(p)
        /\ SubmittedOrder(p).status = "COMPLETED"
        /\ Len(SubmittedOrder(p).captures) = 2
        /\ SubmittedOrder(p).captures[2].value = AmountInPounds(req[p].amount)
        /\ SubmittedOrder(p).captures[2].currency = req[p].currency
        /\ ~vres[p].verified
        /\ pc[p] = "done"

\* An order with two captures was verified on the first although the second
\* capture has another amount.
C27_WitnessVerified ==
    \E p \in Procs :
        /\ OrderDecided(p)
        /\ Len(SubmittedOrder(p).captures) = 2
        /\ SubmittedOrder(p).captures[2].value # AmountInPounds(req[p].amount)
        /\ vres[p].verified

\* A COMPLETED order without a capture.
C27_WitnessNoCapture ==
    \E p \in Procs :
        /\ OrderDecided(p)
        /\ SubmittedOrder(p).status = "COMPLETED"
        /\ Len(SubmittedOrder(p).captures) = 0
        /\ resp[p] = VerificationFailedResponse

\* Invocation p of getAccessToken starts in this step, called by a lookup or
\* by itself for a retry.
Entering(p) ==
    tok[p].state \in {"idle", "sleeping"} /\ tok'[p].state \notin {"idle", "sleeping"}

\* The cache holds a token whose stored expiry is later than the current time.
StoredExpiryAhead == accessTokenCache # NoToken /\ accessTokenCache.expiresAt > now

\* The exchange of invocation p succeeds in this step, and the cache then
\* holds its token with expiry (time of the step) + (expires_in - 60).
StoresResponseExpiry(p) ==
    (tok[p].state = "fetching" /\ tok'[p].via = "exchange")
    => \E i \in issued' \ issued :
          /\ i.handled = now
          /\ tok'[p].token = i.token
          /\ accessTokenCache' = [token |-> i.token,
                                  expiresAt |-> now + (i.expiresIn - 60)]

\* C28 as stated: an invocation returns the cached token without an exchange
\* when the stored expiry is later than the current time and performs an
\* exchange otherwise; a successful exchange stores response time +
\* (expires_in - 60); a cached token is returned only 60 seconds or more
\* before PayPal lets it expire.
C28_ExchangeUnlessCached ==
    [][\A p \in DOMAIN tok :
          /\ Entering(p)
             => IF StoredExpiryAhead
                THEN /\ tok'[p].state = "token"
                     /\ tok'[p].via = "cache"
                     /\ tok'[p].token = accessTokenCache.token
                ELSE tok'[p].state = "fetching"
          /\ StoresResponseExpiry(p)
          /\ (Entering(p) /\ tok'[p].via = "cache")
             => \A i \in issued :
                   i.token = tok'[p].token => (i.at + i.expiresIn) - now >= 60]_vars

\* C28, amended: without a cached token of later stored expiry an invocation
\* performs an exchange if the credentials are configured and fails without
\* a request if not; a cached token is returned only more than 60 seconds
\* before response time + expires_in, which is more than 60 seconds less the
\* latency of its exchange before PayPal lets it expire.
C28_ExchangeIfConfigured ==
    [][\A p \in DOMAIN tok :
          /\ Entering(p)
             => IF StoredExpiryAhead
                THEN /\ tok'[p].state = "token"
                     /\ tok'[p].via = "cache"
                     /\ tok'[p].token = accessTokenCache.token
                ELSE tok'[p].state = IF credentials THEN "fetching" ELSE "failed"
          /\ StoresResponseExpiry(p)
          /\ (Entering(p) /\ tok'[p].via = "cache")
             => \A i \in issued :
                   i.token = tok'[p].token
                   => /\ (i.handled + i.expiresIn) - now > 60
                      /\ (i.at + i.expiresIn) - now > 60 - (i.handled - i.at)]_vars

\* The first token went out of date and was replaced by an exchange that took
\* two seconds; the second token is returned from the cache 59 seconds before
\* PayPal lets it expire.
C28_Witness ==
    \E p \in DOMAIN tok :
        /\ Cardinality(issued) = 2
        /\ tok[p].via = "cache"
        /\ \E i \in issued :
              /\ i.token = tok[p].token
              /\ i.handled - i.at = 2
              /\ (i.at + i.expiresIn) - now = 59

\* Without credentials the invocation fails and nothing is requested.
C28_WitnessNoCredentials ==
    \E p \in DOMAIN tok : ~credentials /\ tok[p].state = "failed" /\ issued = {}

\* C29: when PayPal answers 401 to a lookup that used a token taken from
\* the cache, the step empties the cache of that token, and no later
\* invocation returns a rejected token from the cache.
C29_RejectedTokenInvalidated ==
    [][\A p \in DOMAIN tok :
          /\ (/\ tok[p].state = "token"
              /\ tok[p].via = "cache"
              /\ tok[p].token \notin rejected
              /\ tok[p].token \in rejected')
             => accessTokenCache'.token # tok[p].token
          /\ (Entering(p) /\ tok'[p].via = "cache")
             => tok'[p].token \notin rejected]_vars

\* What the exchange that completed last wrote: tokens are numbered in the
\* order in which their responses are handled.
LastWritten ==
    IF issued = {} THEN NoToken
    ELSE LET i == CHOOSE x \in issued : x.token = Cardinality(issued)
         IN [token |-> i.token, expiresAt |-> i.handled + (i.expiresIn - 60)]

\* C30: a failed exchange, rejected or cut off by the network, leaves the
\* cache as it was, and in every interleaving of concurrent invocations the
\* cache is empty or holds the token and expiry written by the successful
\* exchange that completed last.
C30_CacheIsLastExchange ==
    [][/\ \A p \in DOMAIN tok :
             (tok[p].state = "fetching" /\ tok'[p].state \in {"sleeping", "failed"})
             => accessTokenCache' = accessTokenCache
       /\ accessTokenCache' = LastWritten'
       /\ issued = {} => accessTokenCache = NoToken]_vars

\* Two concurrent invocations both exchanged; the cache holds what the later
\* one wrote.
C30_Witness ==
    \E p \in DOMAIN tok, q \in DOMAIN tok :
        /\ tok[p].via = "exchange" /\ tok[p].token = 1
        /\ tok[q].via = "exchange" /\ tok[q].token = 2
        /\ accessTokenCache.token = 2

\* Of two concurrent exchanges one succeeded and one failed; the cache holds
\* the token of the one that succeeded.
C30_WitnessFailed ==
    \E p \in DOMAIN tok, q \in DOMAIN tok :
        /\ tok[p].via = "exchange"
        /\ tok[q].state = "failed"
        /\ accessTokenCache.token = tok[p].token

\* Non-2xx answers that are no service-unavailable signal.
TerminalAnswers == {"404", "401", "500"}

\* C31: a capture or order lookup answered 404, or with another non-2xx
\* status that is no service-unavailable signal, is not retried: that answer
\* is the last one of the lookup, the lookup has failed with its status, and
\* when it was the first answer exactly one request was issued.
C31_TerminalStatusNotRetried ==
    \A i \in 1..Len(call.seen) :
        call.seen[i] \in TerminalAnswers
        => /\ i = Len(call.seen)
           /\ call.result = call.seen[i]
           /\ call.requests = i

\* C32: when a PaymentRecord with the submitted orderId exists as the
\* pre-check of a submission is answered, the submission ends there with
\* 409: the step and every later one show no provider lookup, no record and
\* no credit of that submission.
C32_PreCheckStopsDuplicate ==
    [][\A q \in Procs :
          /\ (/\ pc[q] = "findPayment"
              /\ pc'[q] # "findPayment"
              /\ resp'[q].kind # "StoreError"
              /\ \E d \in payments : d.externalId = req[q].orderId)
             => /\ pc'[q] = "done"
                /\ resp'[q] = Response(409, "DuplicateAttempt", userBal[q])
                /\ payments' = payments
                /\ credits' = credits
                /\ balance' = balance
          /\ resp[q].kind = "DuplicateAttempt"
             => /\ look'[q] = NoLookups
                /\ \A d \in payments' : d.by # q
                /\ \A c \in credits' : c.by # q]_vars

\* A submission was stopped by the pre-check after another one had recorded
\* and credited the same order.
C32_Witness ==
    \E p \in Procs, q \in Procs :
        /\ resp[q].kind = "DuplicateAttempt"
        /\ resp[p].kind = "Recorded"
        /\ req[p].orderId = req[q].orderId
        /\ Cardinality(CreditsOf(req[q].orderId)) = 1
        /\ Cardinality(RecordsOf(req[q].orderId)) = 1

\* Request p takes the step, which is the save of its credit.
CreditStep(p) ==
    /\ pc[p] = "creditSave" /\ pc'[p] = "done"
    /\ balance' = userBal[p] + AmountInPounds(req[p].amount)
    /\ \E d \in payments : d.by = p

\* Request p takes the step, which is the save of a normalized balance.
NormalizationStep(p) ==
    /\ pc[p] \in {"normSave", "fmtSave"} /\ pc'[p] # pc[p]
    /\ balance' = userBal[p]

\* Request p takes the step, which is the save of a purchase debit.
DebitStep(p) ==
    /\ pc[p] = "genSave" /\ pc'[p] # pc[p]
    /\ balance' = userBal[p]

\* C33 as stated: a step that changes the stored balance is the credit of a
\* verified payment or a unit normalization.
C33_OnlyCreditOrNormalization ==
    [][balance' # balance
       => \E p \in Procs :
             \/ CreditStep(p) /\ verif[p] = "verified"
             \/ NormalizationStep(p)]_vars

\* C33, amended: a step that changes the stored balance is the credit of a
\* payment that was verified or whose verification was bypassed in the
\* sandbox, a unit normalization, or the debit of a generation purchase.
C33_CreditNormalizationOrDebit ==
    [][balance' # balance
       => \E p \in Procs :
             \/ CreditStep(p) /\ verif[p] \in {"verified", "skipped"}
             \/ NormalizationStep(p)
             \/ DebitStep(p)]_vars

\* The balance has been written by a credit and by a purchase debit.
C33_Witness ==
    \E p \in Procs, q \in Procs :
        /\ resp[p].kind = "Recorded"
        /\ resp[q].kind = "Generation"
        /\ req[q].amount > 0
        /\ balance # balance0

\* C34: an operation that compares the balance or does arithmetic on it has
\* normalized it first: the balance a purchase compared with its cost and
\* debited, the balance a payment is credited to and the balance an account
\* read reports are not legacy values.
C34_ReadsAreNormalized ==
    \A p \in Procs :
        /\ pc[p] = "genSave" => ~IsLegacy(userBal[p] + CostInPounds(req[p].amount))
        /\ pc[p] = "creditSave" => ~IsLegacy(userBal[p])
        /\ resp[p].kind = "User" => ~IsLegacy(resp[p].balance)

\* C35: from a non-negative balance, under every interleaving of payment
\* submissions, normalizations and purchases of non-negative cost, the stored
\* balance is never negative, and neither is a balance about to be saved.
C35_BalanceNonNegative ==
    (balance0 >= 0 /\ \A p \in Procs : req[p].amount >= 0)
    => /\ balance >= 0
       /\ \A p \in Procs : userBal[p] >= 0

\* A purchase took the whole balance, and a later one was refused.
C35_Witness ==
    \E p \in Procs, q \in Procs :
        /\ resp[p].kind = "Generation"
        /\ req[p].amount > 0
        /\ resp[q].kind = "InsufficientBalance"
        /\ balance = 0
        /\ balance0 > 0

\* C36: verification is bypassed only with both flags set; with
\* paypalUseSandbox off, whatever the skip flag, every record and every
\* credit comes from a submission that asked PayPal and got verified = true.
C36_NoBypassOutsideSandbox ==
    /\ (\E p \in Procs : verif[p] = "skipped")
       => (paypalSkipVerification /\ paypalUseSandbox)
    /\ ~paypalUseSandbox
       => \A p \in Procs :
             ((\E d \in payments : d.by = p) \/ (\E c \in credits : c.by = p))
             => /\ verif[p] = "verified"
                /\ vres[p].verified
                /\ look[p] # NoLookups
                /\ vres[p].captureDetails.status = "COMPLETED"

\* The skip flag is set outside the sandbox: one submission was verified by
\* PayPal and credited, and the submission of an unknown order was refused.
C36_Witness ==
    /\ paypalSkipVerification
    /\ ~paypalUseSandbox
    /\ \E p \in Procs, q \in Procs :
          /\ resp[p].kind = "Recorded" /\ verif[p] = "verified"
          /\ verif[q] = "error" /\ \A d \in payments : d.by # q

\* C37: in every PaymentRecord, metadata.verified tells that PayPal was asked
\* and returned verified = true for the inserting submission, and
\* metadata.verificationSkipped tells that verification was bypassed for it,
\* under every setting of the two flags.
C37_MetadataTellsVerification ==
    \A d \in payments :
        /\ d.verified <=> (verif[d.by] = "verified" /\ vres[d.by].verified)
        /\ d.verificationSkipped <=> (verif[d.by] = "skipped")

\* C38: when PayPal was asked, the amount credited is the claimed amount /
\* 1000, and it lies within 0.01 of the amount of the COMPLETED capture that
\* verified the submission.
C38_CreditWithinToleranceOfCapture ==
    \A c \in credits :
        verif[c.by] = "verified"
        => /\ c.amount * 1000 = req[c.by].amount * Pound
           /\ vres[c.by].captureDetails.status = "COMPLETED"
           /\ Abs(c.amount - vres[c.by].captureDetails.value) <= Tolerance

\* A claim of 5.00 was verified by a capture of 5.01: 5.00 was credited.
C38_Witness ==
    \E c \in credits :
        /\ verif[c.by] = "verified"
        /\ req[c.by].amount = 5000
        /\ vres[c.by].captureDetails.value = 5010
        /\ balance = 5000

\* Strategy 2 decided for p after the lookup of the supplied captureId failed.
DecidedAfterCaptureFailure(p) ==
    /\ req[p].captureId # NoId
    /\ look[p].capture \notin {"none", "ok"}
    /\ look[p].order = "ok"

\* C39: after a failed capture lookup the result is a function of the order
\* and of the claimed amount and currency alone, the same for every supplied
\* captureId: verified exactly when the order is COMPLETED and its first
\* capture is accepted; the record stores the id of that capture, not the
\* supplied one.
C39_OrderCheckIgnoresCaptureId ==
    \A p \in Procs :
        DecidedAfterCaptureFailure(p)
        => LET order == SubmittedOrder(p)
               has == order.status = "COMPLETED" /\ Len(order.captures) > 0
           IN /\ vres[p].verified
                 <=> (has /\ CaptureAccepted(order.captures[1],
                                             AmountInPounds(req[p].amount), req[p].currency))
              /\ vres[p].captureDetails = IF has THEN order.captures[1] ELSE NoCapture
              /\ \A d \in payments :
                    d.by = p => (has /\ d.captureId = order.captures[1].id)

\* The capture C9 was supplied and not found; the order verified the
\* submission and the record stores the order's capture C1.
C39_Witness ==
    \E p \in Procs :
        /\ DecidedAfterCaptureFailure(p)
        /\ req[p].captureId = "C9"
        /\ \E d \in payments : d.by = p /\ d.captureId = "C1"
        /\ resp[p].kind = "Recorded"

\* The failure a verification error is reported as, by the provider
\* responses alone: what the order lookup ended with, and whether a capture
\* lookup had failed before it.
FailureKind(l) ==
    CASE l.order = "401" -> "PermissionsError"
      [] l.order = "SERVICE_UNAVAILABLE" -> "ServiceUnavailable"
      [] l.order = "404" /\ l.capture # "none" -> "EnvironmentMismatch"
      [] OTHER -> "VerifyError"

\* C40: the failure reported for a provider error depends on the provider
\* responses only, not on the text of the ids: submissions that met the same
\* responses end with the same status and failure kind, and an environment
\* mismatch is not reported as a permissions failure.
C40_FailureByResponsesOnly ==
    \A p \in Procs :
        verif[p] = "error"
        => /\ resp[p].kind = FailureKind(look[p])
           /\ resp[p].status = IF look[p].order = "SERVICE_UNAVAILABLE" THEN 503 ELSE 502

====
